---- MODULE Spec2Model ----
(***************************************************************************)
(* GrainHill: transition-rule builders of the two model variants           *)
(* (GrainFacetSimulator, BlockHill) and the pairwise link transitions the  *)
(* continuous-time stochastic engine executes with the rules they build.   *)
(***************************************************************************)
EXTENDS Integers, Sequences, FiniteSets, TLC

VARIABLES variant, settling_rate, disturbance_rate, weathering_rate,
          dissolution_rate, collapse_rate, pc, xn_list, node_state, last_xn

rulesVars == <<variant, settling_rate, disturbance_rate, weathering_rate,
               dissolution_rate, collapse_rate, pc, xn_list, node_state,
               last_xn>>

(* The run loops: prog is the program running ("facet" for                 *)
(* GrainFacetSimulator.run, "driver" for GrainHillDriver.run), rpc its     *)
(* position.  current_time and next_uplift are the loop's locals in the    *)
(* facet program and the model's attributes in the driver program.         *)
(* targets, images, offsets and uplift_sets record the engine advances     *)
(* requested, the image files written, the do_offset calls and the         *)
(* driver's assignments to model.next_uplift.                              *)
VARIABLES prog, rpc, initialized, run_duration, output_interval,
          plot_interval, uplift_interval, uplift_duration, plot_file,
          file_plot_interval, current_time, next_output, next_plot,
          next_uplift, next_file_plot, uplift_change_time, next_pause,
          plot_number, targets, images, offsets, uplift_sets

runParams == <<prog, initialized, run_duration, output_interval,
               plot_interval, uplift_interval, uplift_duration, plot_file,
               file_plot_interval>>

runVars == <<runParams, rpc, current_time, next_output, next_plot,
             next_uplift, next_file_plot, uplift_change_time, next_pause,
             plot_number, targets, images, offsets, uplift_sets>>

(* The slope measurer: ca_node_state and ca_link_state are the engine's     *)
(* arrays read by SlopeMeasurer; exposed_surface and nodes_fitted are its   *)
(* attributes; while last_call = "calc", min_x, max_x, first_nodes are the  *)
(* arguments of that calc_coords_of_surface_points call and surface_x,     *)
(* surface_z the arrays it returned.  last_call names the last operation,  *)
(* fresh tells that exposed_surface was picked on the present grid,        *)
(* changes counts the changes made to the grid.                            *)
VARIABLES ca_node_state, ca_link_state, pick_only_rock, exposed_surface,
          fresh, min_x, max_x, first_nodes, surface_x, surface_z,
          nodes_fitted, last_call, changes

caVars == <<ca_node_state, ca_link_state>>

callVars == <<min_x, max_x, first_nodes, surface_x, surface_z>>

surfVars == <<caVars, pick_only_rock, exposed_surface, fresh, callVars,
              nodes_fitted, last_call, changes>>

(* The grid of a model: its shape and ca.node_state.  On it the cosmogenic  *)
(* irradiator keeps ca.propid (the particle at each node) and cosmo (the   *)
(* tracer of each particle); calls_log records the add_cosmos calls with   *)
(* the grid they saw, cosmo_op names the last operation and ops counts the *)
(* operations.  id_table, column_nodes and profile hold the results of     *)
(* row_col_to_id, nodes_in_column and get_profile_and_soil_thickness;      *)
(* fills counts the nodes filled in.                                       *)
VARIABLES number_of_node_rows, number_of_node_columns, gh_node_state,
          propid, cosmo, calls_log, cosmo_op, ops,
          id_table, column_nodes, profile, fills

ghVars == <<number_of_node_rows, number_of_node_columns, gh_node_state>>

cosmoVars == <<propid, cosmo, calls_log, cosmo_op, ops>>

profileVars == <<id_table, column_nodes, profile, fills>>

gridVars == <<ghVars, cosmoVars, profileVars>>

vars == <<rulesVars, runVars, surfVars, gridVars>>

(* Value of an attribute that has not been assigned. *)
NotSet == 0 - 1

(* No run loop is part of the behaviour. *)
RunIdle ==
    /\ prog = "none"
    /\ rpc = "idle"
    /\ initialized = FALSE
    /\ run_duration = 0
    /\ output_interval = 0
    /\ plot_interval = 0
    /\ uplift_interval = 0
    /\ uplift_duration = 0
    /\ plot_file = FALSE
    /\ file_plot_interval = 0
    /\ current_time = 0
    /\ next_output = 0
    /\ next_plot = 0
    /\ next_uplift = 0
    /\ next_file_plot = 0
    /\ uplift_change_time = 0
    /\ next_pause = 0
    /\ plot_number = NotSet
    /\ targets = << >>
    /\ images = << >>
    /\ offsets = << >>
    /\ uplift_sets = << >>

(* No calc_coords_of_surface_points call has just returned. *)
NoCall ==
    /\ min_x = NotSet
    /\ max_x = NotSet
    /\ first_nodes = NotSet
    /\ surface_x = <<NotSet>>
    /\ surface_z = <<NotSet>>

(* The arguments and the returned arrays of the last call are gone. *)
ForgetCall ==
    /\ min_x' = NotSet
    /\ max_x' = NotSet
    /\ first_nodes' = NotSet
    /\ surface_x' = <<NotSet>>
    /\ surface_z' = <<NotSet>>

(* No irradiator exists. *)
CosmoIdle ==
    /\ propid = << >>
    /\ cosmo = << >>
    /\ calls_log = << >>
    /\ cosmo_op = "none"
    /\ ops = 0

(* No column or profile has been computed. *)
ProfileIdle ==
    /\ id_table = << >>
    /\ column_nodes = << >>
    /\ profile = << >>
    /\ fills = 0

(* No grid is under study. *)
GridIdle ==
    /\ number_of_node_rows = 0
    /\ number_of_node_columns = 0
    /\ gh_node_state = << >>
    /\ CosmoIdle
    /\ ProfileIdle

(* No slope measurer exists. *)
SurfaceIdle ==
    /\ ca_node_state = << >>
    /\ ca_link_state = << >>
    /\ pick_only_rock = TRUE
    /\ exposed_surface = <<NotSet>>
    /\ fresh = FALSE
    /\ NoCall
    /\ nodes_fitted = <<NotSet>>
    /\ last_call = "none"
    /\ changes = 0

(* Largest value a rate parameter takes (rates are events per unit time). *)
MaxRate == 1

Rates == 0..MaxRate

Variants == {"GrainFacetSimulator", "BlockHill"}

----------------------------------------------------------------------------
(* State catalogue *)

BLOCK_ID == 9

(* lattice_grain_node_states(): 0 fluid, 1..6 moving grains (two directions *)
(* along each of the three lattice axes), 7 resting grain, 8 rock/wall.     *)
lattice_grain_node_states ==
    [c \in 0..8 |->
        CASE c = 0 -> "fluid"
          [] c \in 1..6 -> "grain-moving"
          [] c = 7 -> "grain-at-rest"
          [] OTHER -> "wall"]

GFS_node_state_dictionary == lattice_grain_node_states

BH_node_state_dictionary ==
    [c \in (DOMAIN lattice_grain_node_states) \cup {BLOCK_ID} |->
        IF c = BLOCK_ID THEN "block" ELSE lattice_grain_node_states[c]]

node_state_dictionary(v) ==
    IF v = "BlockHill" THEN BH_node_state_dictionary
                       ELSE GFS_node_state_dictionary

(* Lattice axis (0 vertical, 1 right-and-up, 2 right-and-down) along which *)
(* a moving grain of code c travels: 1/4 up/down, 2/5 and 3/6 the diagonals. *)
OrientationClass(c) == (c - 1) % 3

----------------------------------------------------------------------------
(* Transition rules *)

Transition(from_state, to_state, rate, name) ==
    [from_state |-> from_state, to_state |-> to_state,
     rate |-> rate, name |-> name]

(* Base lattice-grain rule set: motion of a moving grain into fluid along  *)
(* its axis, and gravitational settling of a grain onto a resting grain or *)
(* wall beneath it.                                                        *)
lattice_grain_transition_list(g, f, motion) ==
    << Transition(<<1,0,0>>, <<0,1,0>>, motion, "motion"),
       Transition(<<2,0,1>>, <<0,2,1>>, motion, "motion"),
       Transition(<<3,0,2>>, <<0,3,2>>, motion, "motion"),
       Transition(<<0,4,0>>, <<4,0,0>>, motion, "motion"),
       Transition(<<0,5,1>>, <<5,0,1>>, motion, "motion"),
       Transition(<<0,6,2>>, <<6,0,2>>, motion, "motion"),
       Transition(<<7,4,0>>, <<7,7,0>>, g, "settling"),
       Transition(<<8,4,0>>, <<8,7,0>>, g, "settling") >>

(* Variant of GFS_disturbance_rules: the grain entrained along the         *)
(* right-and-up axis leaves on the right-and-down axis (6 for 5).          *)
GFS_disturbance_rules_misdirected(d) ==
    IF d > 0
    THEN << Transition(<<7,0,0>>, <<0,1,0>>, d, "disturbance"),
            Transition(<<7,0,1>>, <<0,2,1>>, d, "disturbance"),
            Transition(<<7,0,2>>, <<0,3,2>>, d, "disturbance"),
            Transition(<<0,7,0>>, <<4,0,0>>, d, "disturbance"),
            Transition(<<0,7,1>>, <<6,0,1>>, d, "disturbance"),
            Transition(<<0,7,2>>, <<6,0,2>>, d, "disturbance") >>
    ELSE << >>

(* Disturbance group, identical in both variants. *)
GFS_disturbance_rules(d) ==
    IF d > 0
    THEN << Transition(<<7,0,0>>, <<0,1,0>>, d, "disturbance"),
            Transition(<<7,0,1>>, <<0,2,1>>, d, "disturbance"),
            Transition(<<7,0,2>>, <<0,3,2>>, d, "disturbance"),
            Transition(<<0,7,0>>, <<4,0,0>>, d, "disturbance"),
            Transition(<<0,7,1>>, <<5,0,1>>, d, "disturbance"),
            Transition(<<0,7,2>>, <<6,0,2>>, d, "disturbance") >>
    ELSE << >>

(* Variant of GFS_weathering_rules: rock weathers to the block code, which *)
(* GrainFacetSimulator does not enumerate.                                 *)
GFS_weathering_rules_to_block(w) ==
    IF w > 0
    THEN << Transition(<<8,0,0>>, <<BLOCK_ID,0,0>>, w, "weathering"),
            Transition(<<8,0,1>>, <<BLOCK_ID,0,1>>, w, "weathering"),
            Transition(<<8,0,2>>, <<BLOCK_ID,0,2>>, w, "weathering"),
            Transition(<<0,8,0>>, <<0,BLOCK_ID,0>>, w, "weathering"),
            Transition(<<0,8,1>>, <<0,BLOCK_ID,1>>, w, "weathering"),
            Transition(<<0,8,2>>, <<0,BLOCK_ID,2>>, w, "weathering") >>
    ELSE << >>

GFS_weathering_rules(w) ==
    IF w > 0
    THEN << Transition(<<8,0,0>>, <<7,0,0>>, w, "weathering"),
            Transition(<<8,0,1>>, <<7,0,1>>, w, "weathering"),
            Transition(<<8,0,2>>, <<7,0,2>>, w, "weathering"),
            Transition(<<0,8,0>>, <<0,7,0>>, w, "weathering"),
            Transition(<<0,8,1>>, <<0,7,1>>, w, "weathering"),
            Transition(<<0,8,2>>, <<0,7,2>>, w, "weathering") >>
    ELSE << >>

(* Variant of GFS_dissolution_rules: the to-states of the weathering group *)
(* are kept, so the rock turns into a resting grain.                       *)
GFS_dissolution_rules_to_regolith(diss) ==
    IF diss > 0
    THEN << Transition(<<8,0,0>>, <<7,0,0>>, diss, "dissolution"),
            Transition(<<8,0,1>>, <<7,0,1>>, diss, "dissolution"),
            Transition(<<8,0,2>>, <<7,0,2>>, diss, "dissolution"),
            Transition(<<0,8,0>>, <<0,7,0>>, diss, "dissolution"),
            Transition(<<0,8,1>>, <<0,7,1>>, diss, "dissolution"),
            Transition(<<0,8,2>>, <<0,7,2>>, diss, "dissolution") >>
    ELSE << >>

GFS_dissolution_rules(diss) ==
    IF diss > 0
    THEN << Transition(<<8,0,0>>, <<0,0,0>>, diss, "dissolution"),
            Transition(<<8,0,1>>, <<0,0,1>>, diss, "dissolution"),
            Transition(<<8,0,2>>, <<0,0,2>>, diss, "dissolution"),
            Transition(<<0,8,0>>, <<0,0,0>>, diss, "dissolution"),
            Transition(<<0,8,1>>, <<0,0,1>>, diss, "dissolution"),
            Transition(<<0,8,2>>, <<0,0,2>>, diss, "dissolution") >>
    ELSE << >>

GFS_add_weathering_and_disturbance_transitions(xn, d, w, diss) ==
    xn \o GFS_disturbance_rules(d) \o GFS_weathering_rules(w)
       \o GFS_dissolution_rules(diss)

GFS_transition_list(s, d, w, diss) ==
    GFS_add_weathering_and_disturbance_transitions(
        lattice_grain_transition_list(s, 0, s), d, w, diss)

(* Variant of BH_disturbance_rules: the guard admits a rate of 0. *)
BH_disturbance_rules_nonneg(d) ==
    IF d >= 0
    THEN << Transition(<<7,0,0>>, <<0,1,0>>, d, "disturbance"),
            Transition(<<7,0,1>>, <<0,2,1>>, d, "disturbance"),
            Transition(<<7,0,2>>, <<0,3,2>>, d, "disturbance"),
            Transition(<<0,7,0>>, <<4,0,0>>, d, "disturbance"),
            Transition(<<0,7,1>>, <<5,0,1>>, d, "disturbance"),
            Transition(<<0,7,2>>, <<6,0,2>>, d, "disturbance") >>
    ELSE << >>

BH_disturbance_rules(d) ==
    IF d > 0
    THEN << Transition(<<7,0,0>>, <<0,1,0>>, d, "disturbance"),
            Transition(<<7,0,1>>, <<0,2,1>>, d, "disturbance"),
            Transition(<<7,0,2>>, <<0,3,2>>, d, "disturbance"),
            Transition(<<0,7,0>>, <<4,0,0>>, d, "disturbance"),
            Transition(<<0,7,1>>, <<5,0,1>>, d, "disturbance"),
            Transition(<<0,7,2>>, <<6,0,2>>, d, "disturbance") >>
    ELSE << >>

(* Variant of BH_rock_collapse_rules: the rock becomes a falling grain. *)
BH_rock_collapse_rules_to_grain(collapse) ==
    IF collapse > 0
    THEN << Transition(<<0,8,0>>, <<0,4,0>>, collapse, "rock collapse") >>
    ELSE << >>

(* The "rock collapse" rule is nested in the weathering branch: it is      *)
(* appended only when w > 0 and collapse_rate > 0.                         *)
BH_rock_collapse_rules(collapse) ==
    IF collapse > 0
    THEN << Transition(<<0,8,0>>, <<0,BLOCK_ID,0>>, collapse,
                       "rock collapse") >>
    ELSE << >>

(* Variant of BH_weathering_rules: the head-rock rules keep the parent     *)
(* class's resting-grain product.                                          *)
BH_weathering_rules_to_regolith(w, collapse) ==
    IF w > 0
    THEN << Transition(<<8,0,0>>, <<BLOCK_ID,0,0>>, w, "weathering"),
            Transition(<<8,0,1>>, <<BLOCK_ID,0,1>>, w, "weathering"),
            Transition(<<8,0,2>>, <<BLOCK_ID,0,2>>, w, "weathering"),
            Transition(<<0,8,0>>, <<0,7,0>>, w, "weathering"),
            Transition(<<0,8,1>>, <<0,7,1>>, w, "weathering"),
            Transition(<<0,8,2>>, <<0,7,2>>, w, "weathering") >>
         \o BH_rock_collapse_rules(collapse)
    ELSE << >>

BH_weathering_rules(w, collapse) ==
    IF w > 0
    THEN << Transition(<<8,0,0>>, <<BLOCK_ID,0,0>>, w, "weathering"),
            Transition(<<8,0,1>>, <<BLOCK_ID,0,1>>, w, "weathering"),
            Transition(<<8,0,2>>, <<BLOCK_ID,0,2>>, w, "weathering"),
            Transition(<<0,8,0>>, <<0,BLOCK_ID,0>>, w, "weathering"),
            Transition(<<0,8,1>>, <<0,BLOCK_ID,1>>, w, "weathering"),
            Transition(<<0,8,2>>, <<0,BLOCK_ID,2>>, w, "weathering") >>
         \o BH_rock_collapse_rules(collapse)
    ELSE << >>

BH_add_weathering_and_disturbance_transitions(xn, d, w, collapse) ==
    xn \o BH_disturbance_rules(d) \o BH_weathering_rules(w, collapse)

(* Variant of block_settling_rules: the third rule's to-state carries the  *)
(* orientation of the second.                                              *)
block_settling_rules_reoriented(s, d) ==
    << Transition(<<0,BLOCK_ID,0>>, <<BLOCK_ID,0,0>>, s, "block settling"),
       Transition(<<0,BLOCK_ID,1>>, <<BLOCK_ID,0,1>>, d, "block settling"),
       Transition(<<BLOCK_ID,0,2>>, <<0,BLOCK_ID,1>>, d, "block settling") >>

(* Variant of block_settling_rules: the vertical rule leaves the block in  *)
(* place as well as putting one below.                                     *)
block_settling_rules_duplicating(s, d) ==
    << Transition(<<0,BLOCK_ID,0>>, <<BLOCK_ID,BLOCK_ID,0>>, s, "block settling"),
       Transition(<<0,BLOCK_ID,1>>, <<BLOCK_ID,0,1>>, d, "block settling"),
       Transition(<<BLOCK_ID,0,2>>, <<0,BLOCK_ID,2>>, d, "block settling") >>

block_settling_rules(s, d) ==
    << Transition(<<0,BLOCK_ID,0>>, <<BLOCK_ID,0,0>>, s, "block settling"),
       Transition(<<0,BLOCK_ID,1>>, <<BLOCK_ID,0,1>>, d, "block settling"),
       Transition(<<BLOCK_ID,0,2>>, <<0,BLOCK_ID,2>>, d, "block settling") >>

(* Variant of block_weathering_rules: the vertical head-block rule keeps   *)
(* the to-state of the disturbance rule it was copied from, so the block   *)
(* leaves as a falling grain.                                              *)
block_weathering_rules_activating(w) ==
    << Transition(<<0,BLOCK_ID,0>>, <<4,0,0>>, w, "block weathering"),
       Transition(<<BLOCK_ID,0,0>>, <<7,0,0>>, w, "block weathering"),
       Transition(<<0,BLOCK_ID,1>>, <<0,7,1>>, w, "block weathering"),
       Transition(<<BLOCK_ID,0,1>>, <<7,0,1>>, w, "block weathering"),
       Transition(<<0,BLOCK_ID,2>>, <<0,7,2>>, w, "block weathering"),
       Transition(<<BLOCK_ID,0,2>>, <<7,0,2>>, w, "block weathering") >>

block_weathering_rules(w) ==
    << Transition(<<0,BLOCK_ID,0>>, <<0,7,0>>, w, "block weathering"),
       Transition(<<BLOCK_ID,0,0>>, <<7,0,0>>, w, "block weathering"),
       Transition(<<0,BLOCK_ID,1>>, <<0,7,1>>, w, "block weathering"),
       Transition(<<BLOCK_ID,0,1>>, <<7,0,1>>, w, "block weathering"),
       Transition(<<0,BLOCK_ID,2>>, <<0,7,2>>, w, "block weathering"),
       Transition(<<BLOCK_ID,0,2>>, <<7,0,2>>, w, "block weathering") >>

(* Variant of hit_block_rules: the grain that hits a block from below      *)
(* vanishes.                                                               *)
hit_block_rules_absorbing(s) ==
    << Transition(<<1,BLOCK_ID,0>>, <<0,BLOCK_ID,0>>, s, "hit block"),
       Transition(<<2,BLOCK_ID,1>>, <<7,BLOCK_ID,1>>, s, "hit block"),
       Transition(<<3,BLOCK_ID,2>>, <<7,BLOCK_ID,2>>, s, "hit block"),
       Transition(<<BLOCK_ID,4,0>>, <<BLOCK_ID,7,0>>, s, "hit block"),
       Transition(<<BLOCK_ID,5,1>>, <<BLOCK_ID,7,1>>, s, "hit block"),
       Transition(<<BLOCK_ID,6,2>>, <<BLOCK_ID,7,2>>, s, "hit block") >>

(* Variant of hit_block_rules: the rules with the block at the tail rewrite *)
(* the tail, as the first three do, instead of the grain at the head.      *)
hit_block_rules_tail(s) ==
    << Transition(<<1,BLOCK_ID,0>>, <<7,BLOCK_ID,0>>, s, "hit block"),
       Transition(<<2,BLOCK_ID,1>>, <<7,BLOCK_ID,1>>, s, "hit block"),
       Transition(<<3,BLOCK_ID,2>>, <<7,BLOCK_ID,2>>, s, "hit block"),
       Transition(<<BLOCK_ID,4,0>>, <<7,4,0>>, s, "hit block"),
       Transition(<<BLOCK_ID,5,1>>, <<7,5,1>>, s, "hit block"),
       Transition(<<BLOCK_ID,6,2>>, <<7,6,2>>, s, "hit block") >>

hit_block_rules(s) ==
    << Transition(<<1,BLOCK_ID,0>>, <<7,BLOCK_ID,0>>, s, "hit block"),
       Transition(<<2,BLOCK_ID,1>>, <<7,BLOCK_ID,1>>, s, "hit block"),
       Transition(<<3,BLOCK_ID,2>>, <<7,BLOCK_ID,2>>, s, "hit block"),
       Transition(<<BLOCK_ID,4,0>>, <<BLOCK_ID,7,0>>, s, "hit block"),
       Transition(<<BLOCK_ID,5,1>>, <<BLOCK_ID,7,1>>, s, "hit block"),
       Transition(<<BLOCK_ID,6,2>>, <<BLOCK_ID,7,2>>, s, "hit block") >>

add_block_transitions(xn, s, d, w) ==
    xn \o block_settling_rules(s, d) \o block_weathering_rules(w)
       \o hit_block_rules(s)

BH_transition_list(s, d, w, collapse) ==
    add_block_transitions(
        BH_add_weathering_and_disturbance_transitions(
            lattice_grain_transition_list(s, 0, s), d, w, collapse),
        s, d, w)

transition_list(v, s, d, w, diss, collapse) ==
    IF v = "BlockHill" THEN BH_transition_list(s, d, w, collapse)
                       ELSE GFS_transition_list(s, d, w, diss)

----------------------------------------------------------------------------
(* Lattice: three mutually adjacent nodes, one link of each orientation.   *)
(* Node 0 lies below node 1 in one column, node 2 in the next column half  *)
(* a cell above node 0.  A link is <<tail, head, orientation>>.            *)

Nodes == {0, 1, 2}

Links == { <<0, 1, 0>>, <<0, 2, 1>>, <<1, 2, 2>> }

NoLink == << >>

link_state(ns, l) == <<ns[l[1]], ns[l[2]], l[3]>>

(* Rewrite of the two endpoint nodes of link l by the to-state of a rule. *)
update_node_states(ns, l, to_state) ==
    [n \in Nodes |-> IF n = l[1] THEN to_state[1]
                     ELSE IF n = l[2] THEN to_state[2]
                     ELSE ns[n]]

----------------------------------------------------------------------------
(* Model construction and the engine's transition step *)

InitRules ==
    /\ variant \in Variants
    /\ settling_rate \in 1..MaxRate
    /\ disturbance_rate \in Rates
    /\ weathering_rate \in Rates
    /\ dissolution_rate \in (IF variant = "BlockHill" THEN {0} ELSE Rates)
    /\ collapse_rate \in (IF variant = "BlockHill" THEN Rates ELSE {0})
    /\ pc = "new"
    /\ xn_list = << >>
    /\ node_state \in [Nodes -> DOMAIN node_state_dictionary(variant)]
    /\ last_xn = [name |-> "none", link |-> NoLink]
    /\ RunIdle
    /\ SurfaceIdle
    /\ GridIdle

(* Construction: the engine is handed transition_list(). *)
Construct ==
    /\ pc = "new"
    /\ xn_list' = transition_list(variant, settling_rate, disturbance_rate,
                                  weathering_rate, dissolution_rate,
                                  collapse_rate)
    /\ pc' = "ready"
    /\ UNCHANGED <<variant, settling_rate, disturbance_rate, weathering_rate,
                   dissolution_rate, collapse_rate, node_state, last_xn>>
    /\ UNCHANGED <<runVars, surfVars, gridVars>>

(* Rule i of the list fires on link l: an event of intensity rate > 0 on a *)
(* link whose state is the rule's from-state.                              *)
Fires(l, i) ==
    /\ pc = "ready"
    /\ xn_list[i].rate > 0
    /\ link_state(node_state, l) = xn_list[i].from_state
    /\ node_state' = update_node_states(node_state, l, xn_list[i].to_state)
    /\ last_xn' = [name |-> xn_list[i].name, link |-> l]

DoTransition ==
    /\ \E l \in Links : \E i \in DOMAIN xn_list : Fires(l, i)
    /\ UNCHANGED <<variant, settling_rate, disturbance_rate, weathering_rate,
                   dissolution_rate, collapse_rate, pc, xn_list>>
    /\ UNCHANGED <<runVars, surfVars, gridVars>>

NextRules == Construct \/ DoTransition

SpecRules == InitRules /\ [][NextRules]_vars

----------------------------------------------------------------------------
(* Run loops: GrainFacetSimulator.run and GrainHillDriver.run *)

(* Largest run duration and largest schedule interval (simulated time in   *)
(* whole units).                                                           *)
MaxTime == 4

MaxInterval == 3

min(a, b) == IF a <= b THEN a ELSE b

(* str(n): the decimal digits of n >= 0. *)
RECURSIVE str(_)
str(n) == IF n < 10 THEN <<n>> ELSE str(n \div 10) \o <<n % 10>>

(* zfill(digits, width): left-padded with zeros to at least width. *)
zfill(digits, width) ==
    IF Len(digits) >= width THEN digits
    ELSE [i \in 1..(width - Len(digits)) |-> 0] \o digits

(* The image file written by plot_to_file() when plot_number is n, the     *)
(* simulated time is t and adv engine advances have been requested.        *)
image(n, t, adv) ==
    [number |-> n, fname |-> zfill(str(n), 4), time |-> t, advances |-> adv]

(* Variant of D_plot_number_after: the increment is missing. *)
D_plot_number_kept(n) == n

(* plot_number after GrainHillDriver.plot_to_file(). *)
D_plot_number_after(n) == n + 1

(* plot_number after GrainFacetSimulator.plot_to_file(). *)
GFS_plot_number_after(n) == n + 1

(* Rules variables when no rule list is part of the behaviour. *)
RulesIdle ==
    /\ variant = "GrainFacetSimulator"
    /\ settling_rate = 1
    /\ disturbance_rate = 0
    /\ weathering_rate = 0
    /\ dissolution_rate = 0
    /\ collapse_rate = 0
    /\ pc = "new"
    /\ xn_list = << >>
    /\ node_state = [n \in Nodes |-> 0]
    /\ last_xn = [name |-> "none", link |-> NoLink]

(* A GrainFacetSimulator after initialize(): with a plot file name the     *)
(* first image has been written and plot_number is 1.                      *)
InitFacet ==
    /\ prog = "facet"
    /\ rpc = "idle"
    /\ initialized = TRUE
    /\ run_duration \in 1..MaxTime
    /\ output_interval \in 1..MaxInterval
    /\ plot_interval \in 1..MaxInterval
    /\ uplift_interval \in 1..MaxInterval
    /\ uplift_duration = 0
    /\ plot_file \in BOOLEAN
    /\ file_plot_interval = 0
    /\ current_time = 0
    /\ next_output = 0
    /\ next_plot = 0
    /\ next_uplift = 0
    /\ next_file_plot = 0
    /\ uplift_change_time = 0
    /\ next_pause = 0
    /\ plot_number = (IF plot_file THEN GFS_plot_number_after(0) ELSE NotSet)
    /\ images = (IF plot_file THEN <<image(0, 0, 0)>> ELSE << >>)
    /\ targets = << >>
    /\ offsets = << >>
    /\ uplift_sets = << >>

(* A GrainHillDriver after __init__() without an input file: not          *)
(* initialized, no parameter read and no model built.  (With an input file *)
(* __init__ calls initialize(), the action D_Initialize.)                  *)
InitDriver ==
    /\ prog = "driver"
    /\ rpc = "idle"
    /\ initialized = FALSE
    /\ run_duration = 0
    /\ plot_interval = 0
    /\ uplift_interval = 0
    /\ uplift_duration = 0
    /\ plot_file = FALSE
    /\ file_plot_interval = 0
    /\ plot_number = NotSet
    /\ next_uplift = 0
    /\ output_interval = 0
    /\ current_time = 0
    /\ next_output = 0
    /\ next_plot = 0
    /\ next_file_plot = 0
    /\ uplift_change_time = 0
    /\ next_pause = 0
    /\ images = << >>
    /\ targets = << >>
    /\ offsets = << >>
    /\ uplift_sets = << >>

InitRun ==
    RulesIdle /\ SurfaceIdle /\ GridIdle /\ (InitFacet \/ InitDriver)

----------------------------------------------------------------------------
(* GrainFacetSimulator.run *)

(* Variant of F_Begin: the first fault slip is scheduled at time 0. *)
F_Begin_uplift_at_zero ==
    /\ prog = "facet" /\ rpc = "idle"
    /\ next_output' = output_interval
    /\ next_plot' = plot_interval
    /\ next_uplift' = 0
    /\ current_time' = 0
    /\ rpc' = "while"
    /\ UNCHANGED <<rulesVars, surfVars, gridVars,
                   runParams, next_file_plot, uplift_change_time,
                   next_pause, plot_number, targets, images, offsets,
                   uplift_sets>>

(* Entry of run(): the schedules start one interval after time 0. *)
F_Begin ==
    /\ prog = "facet" /\ rpc = "idle"
    /\ next_output' = output_interval
    /\ next_plot' = plot_interval
    /\ next_uplift' = uplift_interval
    /\ current_time' = 0
    /\ rpc' = "while"
    /\ UNCHANGED <<rulesVars, surfVars, gridVars,
                   runParams, next_file_plot, uplift_change_time,
                   next_pause, plot_number, targets, images, offsets,
                   uplift_sets>>

(* Variant of F_Advance: the pause is not capped by run_duration. *)
F_Advance_uncapped ==
    /\ prog = "facet" /\ rpc = "while"
    /\ current_time < run_duration
    /\ next_pause' = min(min(next_output, next_plot), next_uplift)
    /\ targets' = Append(targets, [from |-> current_time, to |-> next_pause'])
    /\ current_time' = next_pause'
    /\ rpc' = "output"
    /\ UNCHANGED <<rulesVars, surfVars, gridVars,
                   runParams, next_output, next_plot, next_uplift,
                   next_file_plot, uplift_change_time, plot_number, images,
                   offsets, uplift_sets>>

(* Loop test passed: next_pause is the earliest of the schedules and of    *)
(* run_duration; the engine runs to it and current_time becomes it.        *)
F_Advance ==
    /\ prog = "facet" /\ rpc = "while"
    /\ current_time < run_duration
    /\ next_pause' = min(min(min(next_output, next_plot), next_uplift),
                         run_duration)
    /\ targets' = Append(targets, [from |-> current_time, to |-> next_pause'])
    /\ current_time' = next_pause'
    /\ rpc' = "output"
    /\ UNCHANGED <<rulesVars, surfVars, gridVars,
                   runParams, next_output, next_plot, next_uplift,
                   next_file_plot, uplift_change_time, plot_number, images,
                   offsets, uplift_sets>>

(* Loop test failed: run() returns. *)
F_Exit ==
    /\ prog = "facet" /\ rpc = "while"
    /\ ~(current_time < run_duration)
    /\ rpc' = "done"
    /\ UNCHANGED <<rulesVars, surfVars, gridVars,
                   runParams, current_time, next_output, next_plot,
                   next_uplift, next_file_plot, uplift_change_time,
                   next_pause, plot_number, targets, images, offsets,
                   uplift_sets>>

(* Handle output to file. *)
F_Output ==
    /\ prog = "facet" /\ rpc = "output"
    /\ next_output' = (IF current_time >= next_output
                       THEN next_output + output_interval ELSE next_output)
    /\ rpc' = "plot"
    /\ UNCHANGED <<rulesVars, surfVars, gridVars,
                   runParams, current_time, next_plot, next_uplift,
                   next_file_plot, uplift_change_time, next_pause,
                   plot_number, targets, images, offsets, uplift_sets>>

(* Handle plotting on display, and to file when a file name was given. *)
F_Plot ==
    /\ prog = "facet" /\ rpc = "plot"
    /\ IF current_time >= next_plot
       THEN /\ IF plot_file
               THEN /\ images' = Append(images,
                                        image(plot_number, current_time,
                                              Len(targets)))
                    /\ plot_number' = GFS_plot_number_after(plot_number)
               ELSE UNCHANGED <<images, plot_number>>
            /\ next_plot' = next_plot + plot_interval
       ELSE UNCHANGED <<images, plot_number, next_plot>>
    /\ rpc' = "uplift"
    /\ UNCHANGED <<rulesVars, surfVars, gridVars,
                   runParams, current_time, next_output, next_uplift,
                   next_file_plot, uplift_change_time, next_pause, targets,
                   offsets, uplift_sets>>

(* Variant of F_Offset: a fault slip that is due may also be handled before *)
(* the plot of the same pause.                                             *)
F_Offset_before_plot ==
    /\ prog = "facet" /\ rpc \in {"plot", "uplift"}
    /\ rpc = "plot" => current_time >= next_uplift
    /\ IF current_time >= next_uplift
       THEN /\ offsets' = Append(offsets,
                                 [time |-> current_time,
                                  advanced_to |-> targets[Len(targets)].to])
            /\ next_uplift' = next_uplift + uplift_interval
       ELSE UNCHANGED <<offsets, next_uplift>>
    /\ rpc' = (IF rpc = "plot" THEN "plot" ELSE "while")
    /\ UNCHANGED <<rulesVars, surfVars, gridVars,
                   runParams, current_time, next_output, next_plot,
                   next_file_plot, uplift_change_time, next_pause,
                   plot_number, targets, images, uplift_sets>>

(* Handle fault slip: do_offset(current_time) and the next epoch. *)
F_Offset ==
    /\ prog = "facet" /\ rpc = "uplift"
    /\ IF current_time >= next_uplift
       THEN /\ offsets' = Append(offsets,
                                 [time |-> current_time,
                                  advanced_to |-> targets[Len(targets)].to])
            /\ next_uplift' = next_uplift + uplift_interval
       ELSE UNCHANGED <<offsets, next_uplift>>
    /\ rpc' = "while"
    /\ UNCHANGED <<rulesVars, surfVars, gridVars,
                   runParams, current_time, next_output, next_plot,
                   next_file_plot, uplift_change_time, next_pause,
                   plot_number, targets, images, uplift_sets>>


----------------------------------------------------------------------------
(* GrainHillDriver *)

(* initialize(input_file_name) on a driver constructed without a file. *)
D_Initialize ==
    /\ prog = "driver" /\ rpc = "idle" /\ ~initialized
    /\ run_duration' \in 1..MaxTime
    /\ plot_interval' \in 1..MaxInterval
    /\ uplift_interval' \in 1..MaxInterval
    /\ uplift_duration' \in 0..MaxTime
    /\ plot_file' \in BOOLEAN
    /\ file_plot_interval' =
          (IF plot_file' THEN plot_interval' ELSE run_duration')
    /\ plot_number' = 0
    /\ next_uplift' = uplift_interval'
    /\ initialized' = TRUE
    /\ UNCHANGED <<rulesVars, surfVars, gridVars,
                   prog, output_interval, rpc, current_time,
                   next_output, next_plot, next_file_plot, uplift_change_time,
                   next_pause, targets, images, offsets, uplift_sets>>

(* Variant of D_Run: the initialized test is missing. *)
D_Run_unchecked ==
    /\ prog = "driver" /\ rpc = "idle"
    /\ images' = Append(images, image(plot_number, current_time,
                                               Len(targets)))
    /\ plot_number' = D_plot_number_after(plot_number)
    /\ next_file_plot' = file_plot_interval
    /\ uplift_change_time' = uplift_duration
    /\ rpc' = "while"
    /\ UNCHANGED <<rulesVars, surfVars, gridVars,
                   runParams, current_time, next_output, next_plot,
                   next_uplift, next_pause, targets, offsets, uplift_sets>>

(* Entry of run(): raise when not initialized; otherwise write the first   *)
(* image and set the two schedules.                                        *)
D_Run ==
    /\ prog = "driver" /\ rpc = "idle"
    /\ IF ~initialized
       THEN /\ rpc' = "raised"
            /\ UNCHANGED <<images, plot_number, next_file_plot,
                           uplift_change_time>>
       ELSE /\ images' = Append(images, image(plot_number, current_time,
                                               Len(targets)))
            /\ plot_number' = D_plot_number_after(plot_number)
            /\ next_file_plot' = file_plot_interval
            /\ uplift_change_time' = uplift_duration
            /\ rpc' = "while"
    /\ UNCHANGED <<rulesVars, surfVars, gridVars,
                   runParams, current_time, next_output, next_plot,
                   next_uplift, next_pause, targets, offsets, uplift_sets>>

(* Variant of D_While: the pause is not capped by uplift_change_time. *)
D_While_no_uplift_pause ==
    /\ prog = "driver" /\ rpc = "while"
    /\ IF current_time < run_duration
       THEN /\ next_pause' = min(next_file_plot, run_duration)
            /\ IF current_time >= uplift_change_time
               THEN /\ next_uplift' = run_duration
                    /\ uplift_change_time' = run_duration
                    /\ uplift_sets' = Append(uplift_sets,
                                             [time |-> current_time,
                                              value |-> run_duration])
               ELSE UNCHANGED <<next_uplift, uplift_change_time, uplift_sets>>
            /\ rpc' = "update"
       ELSE /\ rpc' = "done"
            /\ UNCHANGED <<next_pause, next_uplift, uplift_change_time,
                           uplift_sets>>
    /\ UNCHANGED <<rulesVars, surfVars, gridVars,
                   runParams, current_time, next_output, next_plot,
                   next_file_plot, plot_number, targets, images, offsets>>

(* Variant of D_While: uplift is re-scheduled at uplift_duration instead   *)
(* of run_duration.                                                        *)
D_While_uplift_to_duration ==
    /\ prog = "driver" /\ rpc = "while"
    /\ IF current_time < run_duration
       THEN /\ next_pause' = min(min(next_file_plot, run_duration),
                                 uplift_change_time)
            /\ IF current_time >= uplift_change_time
               THEN /\ next_uplift' = uplift_duration
                    /\ uplift_change_time' = run_duration
                    /\ uplift_sets' = Append(uplift_sets,
                                             [time |-> current_time,
                                              value |-> uplift_duration])
               ELSE UNCHANGED <<next_uplift, uplift_change_time, uplift_sets>>
            /\ rpc' = "update"
       ELSE /\ rpc' = "done"
            /\ UNCHANGED <<next_pause, next_uplift, uplift_change_time,
                           uplift_sets>>
    /\ UNCHANGED <<rulesVars, surfVars, gridVars,
                   runParams, current_time, next_output, next_plot,
                   next_file_plot, plot_number, targets, images, offsets>>

(* Loop test, the pause (computed from uplift_change_time as it is before  *)
(* the next statement changes it) and the end of uplift.                   *)
D_While ==
    /\ prog = "driver" /\ rpc = "while"
    /\ IF current_time < run_duration
       THEN /\ next_pause' = min(min(next_file_plot, run_duration),
                                 uplift_change_time)
            /\ IF current_time >= uplift_change_time
               THEN /\ next_uplift' = run_duration
                    /\ uplift_change_time' = run_duration
                    /\ uplift_sets' = Append(uplift_sets,
                                             [time |-> current_time,
                                              value |-> run_duration])
               ELSE UNCHANGED <<next_uplift, uplift_change_time, uplift_sets>>
            /\ rpc' = "update"
       ELSE /\ rpc' = "done"
            /\ UNCHANGED <<next_pause, next_uplift, uplift_change_time,
                           uplift_sets>>
    /\ UNCHANGED <<rulesVars, surfVars, gridVars,
                   runParams, current_time, next_output, next_plot,
                   next_file_plot, plot_number, targets, images, offsets>>

(* model.next_uplift after model.run(to): the model uplifts at every epoch *)
(* it reaches and moves the epoch on by uplift_interval.                   *)
RECURSIVE model_next_uplift_after(_, _, _)
model_next_uplift_after(nu, to, ui) ==
    IF nu <= to THEN model_next_uplift_after(nu + ui, to, ui) ELSE nu

(* update_until(next_pause): model.run(to=next_pause) advances the model   *)
(* while its current time is before the target.                            *)
D_Update ==
    /\ prog = "driver" /\ rpc = "update"
    /\ targets' = Append(targets, [from |-> current_time, to |-> next_pause])
    /\ IF current_time < next_pause
       THEN /\ current_time' = next_pause
            /\ next_uplift' = model_next_uplift_after(next_uplift, next_pause,
                                                      uplift_interval)
       ELSE UNCHANGED <<current_time, next_uplift>>
    /\ rpc' = "plot"
    /\ UNCHANGED <<rulesVars, surfVars, gridVars,
                   runParams, next_output, next_plot, next_file_plot,
                   uplift_change_time, next_pause, plot_number, images,
                   offsets, uplift_sets>>

(* Plot to file when the plotting epoch has been reached. *)
D_Plot ==
    /\ prog = "driver" /\ rpc = "plot"
    /\ IF current_time >= next_file_plot
       THEN /\ images' = Append(images, image(plot_number, current_time,
                                               Len(targets)))
            /\ plot_number' = D_plot_number_after(plot_number)
            /\ next_file_plot' = next_file_plot + file_plot_interval
       ELSE UNCHANGED <<images, plot_number, next_file_plot>>
    /\ rpc' = "while"
    /\ UNCHANGED <<rulesVars, surfVars, gridVars,
                   runParams, current_time, next_output, next_plot,
                   next_uplift, uplift_change_time, next_pause, targets,
                   offsets, uplift_sets>>

NextRun ==
    \/ F_Begin \/ F_Advance \/ F_Exit \/ F_Output \/ F_Plot \/ F_Offset
    \/ D_Initialize \/ D_Run \/ D_While \/ D_Update \/ D_Plot

SpecRun == InitRun /\ [][NextRun]_vars

(* Both loops are sequential programs: a step that can be taken is taken. *)
FairSpecRun == SpecRun /\ WF_vars(NextRun)

----------------------------------------------------------------------------
(* The slope measurer (slope_measurer.py) on a small hexagonal lattice *)

(* Rows and columns of the lattice handed to the measurer. *)
grid_shape == <<2, 2>>

num_rows == grid_shape[1]

num_cols == grid_shape[2]

(* Largest first_nodes argument. *)
MaxFirst == 1

(* Largest number of changes made to the grid. *)
MaxChanges == 1

(* Default state codes of SlopeMeasurer.__init__. *)
rock_id == 8

static_regolith_id == 7

air_id == 0

(* Node states the lattice is filled with. *)
SurfaceStates == {air_id, static_regolith_id, rock_id}

(* Id of the node in the given row and column. *)
row_col_to_id(row, col, ncols) ==
    row * ncols + (col \div 2) + (col % 2) * ((ncols + 1) \div 2)

GridCells == (0..(num_rows - 1)) \X (0..(num_cols - 1))

GridNodes == {row_col_to_id(rc[1], rc[2], num_cols) : rc \in GridCells}

CellOf ==
    [n \in GridNodes |->
        CHOOSE rc \in GridCells : row_col_to_id(rc[1], rc[2], num_cols) = n]

(* Node coordinates: x in units of the column spacing, z in units of half  *)
(* the row spacing (odd columns sit half a row higher).                    *)
node_x(n) == CellOf[n][2]

node_y(n) == 2 * CellOf[n][1] + (CellOf[n][2] % 2)

(* Links <<tail, head, orientation>>: 0 to the node above, 1 to the node   *)
(* right and up, 2 to the node right and down.                             *)
GridLinks ==
    {<<t, h, 0>> : <<t, h>> \in {th \in GridNodes \X GridNodes :
          /\ node_x(th[2]) = node_x(th[1])
          /\ node_y(th[2]) = node_y(th[1]) + 2}}
    \cup
    {<<t, h, 1>> : <<t, h>> \in {th \in GridNodes \X GridNodes :
          /\ node_x(th[2]) = node_x(th[1]) + 1
          /\ node_y(th[2]) = node_y(th[1]) + 1}}
    \cup
    {<<t, h, 2>> : <<t, h>> \in {th \in GridNodes \X GridNodes :
          /\ node_x(th[2]) = node_x(th[1]) + 1
          /\ node_y(th[2]) = node_y(th[1]) - 1}}

node_at_link_tail(l) == l[1]

node_at_link_head(l) == l[2]

LinkKey(l) == l[1] * Cardinality(GridNodes) + l[2]

(* np.array(...).sort(): the numbers of a finite set in increasing order. *)
RECURSIVE sort(_)
sort(S) ==
    IF S = {} THEN << >>
    ELSE LET m == CHOOSE e \in S : \A f \in S : e <= f
         IN <<m>> \o sort(S \ {m})

(* The links in the order of the link arrays. *)
link_seq ==
    LET ks == sort({LinkKey(l) : l \in GridLinks})
    IN [i \in DOMAIN ks |-> CHOOSE l \in GridLinks : LinkKey(l) = ks[i]]

(* Number of node states of the model and its link-state numbering: one    *)
(* code for each (tail state, head state, orientation).                    *)
num_node_states == Cardinality(DOMAIN GFS_node_state_dictionary)

link_state_dict(k) ==
    k[3] * num_node_states * num_node_states + k[1] * num_node_states + k[2]

LinkStateKeys ==
    (DOMAIN GFS_node_state_dictionary) \X (DOMAIN GFS_node_state_dictionary)
        \X {0, 1, 2}

(* Link states of a lattice with node states ns. *)
assign_link_states_from_node_types(ns) ==
    [l \in GridLinks |-> link_state_dict(<<ns[l[1]], ns[l[2]], l[3]>>)]

rock_options(por) ==
    IF por THEN {rock_id} ELSE {rock_id, static_regolith_id}

(* Variant of airrock_states: the rock end of each state is taken from the *)
(* wrong side.                                                             *)
airrock_states_wrong_end(por) ==
    {<<opt, 1>> : opt \in {k \in LinkStateKeys :
                    k[1] \in rock_options(por) /\ k[2] = air_id}}
    \cup
    {<<opt, 0>> : opt \in {k \in LinkStateKeys :
                    /\ k[1] \notin rock_options(por)
                    /\ k[1] = air_id
                    /\ k[2] \in rock_options(por)}}

(* __init__: the link states with a rock end and an air end, each with the *)
(* position of its rock end (0 tail, 1 head).                              *)
airrock_states(por) ==
    {<<opt, 0>> : opt \in {k \in LinkStateKeys :
                    k[1] \in rock_options(por) /\ k[2] = air_id}}
    \cup
    {<<opt, 1>> : opt \in {k \in LinkStateKeys :
                    /\ k[1] \notin rock_options(por)
                    /\ k[1] = air_id
                    /\ k[2] \in rock_options(por)}}

AirrockKey(se) == link_state_dict(se[1])

(* zip(airrock_link_state_codes, rockend), for each pick_only_rock *)
airrock_link_state_codes ==
    [por \in BOOLEAN |->
        LET ks == sort({AirrockKey(se) : se \in airrock_states(por)})
        IN [i \in DOMAIN ks |->
               <<ks[i], (CHOOSE se \in airrock_states(por) :
                            AirrockKey(se) = ks[i])[2]>>]]

(* The list rock_nodes after the statecodes from the i-th on have been     *)
(* handled, starting from the list acc.                                    *)
RECURSIVE extend_rock_nodes(_, _, _, _)
extend_rock_nodes(acc, codes, i, ls) ==
    IF i > Len(codes) THEN acc
    ELSE LET statecode == codes[i][1]
             end == codes[i][2]
             is_airrock == SelectSeq(link_seq, LAMBDA l : ls[l] = statecode)
             found == [j \in DOMAIN is_airrock |->
                         IF end = 0 THEN node_at_link_tail(is_airrock[j])
                                    ELSE node_at_link_head(is_airrock[j])]
         IN extend_rock_nodes(acc \o found, codes, i + 1, ls)

set(seq) == {seq[i] : i \in DOMAIN seq}

(* pick_rock_surface(): the value of exposed_surface. *)
pick_rock_surface(ls, por) ==
    sort(set(extend_rock_nodes(<< >>, airrock_link_state_codes[por], 1, ls)))

(* seq[:k] *)
Take(seq, k) == SubSeq(seq, 1, min(k, Len(seq)))

(* seq[mask] for a boolean mask, and np.where(mask)[0] (from 1 here). *)
MaskSelect(seq, mask) ==
    LET RECURSIVE go(_)
        go(i) == IF i > Len(seq) THEN << >>
                 ELSE (IF mask[i] THEN <<seq[i]>> ELSE << >>) \o go(i + 1)
    IN go(1)

where(mask) == MaskSelect([i \in DOMAIN mask |-> i], mask)

IndexSelect(seq, idx) == [j \in DOMAIN idx |-> seq[idx[j]]]

(* Variant of calc_coords_of_surface_points: the count filter is applied   *)
(* before the range filter.                                                *)
calc_coords_truncating_first(es, mn, mx, fn) ==
    LET cut == IF fn # NotSet THEN Take(es, fn) ELSE es
        keep == SelectSeq(cut, LAMBDA n :
                    /\ (mn # NotSet => node_x(n) > mn)
                    /\ (mx # NotSet => node_x(n) < mx))
    IN [surface_x |-> [i \in DOMAIN keep |-> node_x(keep[i])],
        surface_z |-> [i \in DOMAIN keep |-> node_y(keep[i])],
        nodes_fitted |-> keep]

(* calc_coords_of_surface_points(min_x, max_x, first_nodes) on the exposed *)
(* surface es; NotSet stands for None.                                     *)
calc_coords_of_surface_points(es, mn, mx, fn) ==
    LET x0 == [i \in DOMAIN es |-> node_x(es[i])]
        z0 == [i \in DOMAIN es |-> node_y(es[i])]
        cond == IF mn # NotSet
                THEN IF mx # NotSet
                     THEN [i \in DOMAIN es |-> x0[i] > mn /\ x0[i] < mx]
                     ELSE [i \in DOMAIN es |-> x0[i] > mn]
                ELSE IF mx # NotSet
                     THEN [i \in DOMAIN es |-> x0[i] < mx]
                     ELSE [i \in DOMAIN es |-> TRUE]
        x1 == MaskSelect(x0, cond)
        z1 == MaskSelect(z0, cond)
    IN IF fn # NotSet
       THEN [surface_x |-> Take(x1, fn),
             surface_z |-> Take(z1, fn),
             nodes_fitted |-> IndexSelect(es, Take(where(cond), fn))]
       ELSE [surface_x |-> x1,
             surface_z |-> z1,
             nodes_fitted |-> MaskSelect(es, cond)]

(* A lattice with its link states assigned and a measurer constructed on   *)
(* it.                                                                     *)
InitSurface ==
    /\ RulesIdle
    /\ RunIdle
    /\ GridIdle
    /\ ca_node_state \in [GridNodes -> SurfaceStates]
    /\ ca_link_state = assign_link_states_from_node_types(ca_node_state)
    /\ pick_only_rock \in BOOLEAN
    /\ exposed_surface = <<NotSet>>
    /\ fresh = FALSE
    /\ NoCall
    /\ nodes_fitted = <<NotSet>>
    /\ last_call = "none"
    /\ changes = 0

(* Variant of PickRockSurface: the list rock_nodes is not emptied and not  *)
(* deduplicated between calls.                                             *)
PickRockSurface_extending ==
    /\ exposed_surface' =
          (LET old == IF exposed_surface = <<NotSet>> THEN << >>
                      ELSE exposed_surface
               all == extend_rock_nodes(old,
                          airrock_link_state_codes[pick_only_rock], 1,
                          ca_link_state)
               order == sort({all[i] * (Len(all) + 1) + i : i \in DOMAIN all})
           IN [j \in DOMAIN order |-> order[j] \div (Len(all) + 1)])
    /\ fresh' = TRUE
    /\ last_call' = "pick"
    /\ ForgetCall
    /\ UNCHANGED <<rulesVars, runVars, gridVars,
                   caVars, pick_only_rock, nodes_fitted,
                   changes>>

(* sm.pick_rock_surface() *)
PickRockSurface ==
    /\ exposed_surface' = pick_rock_surface(ca_link_state, pick_only_rock)
    /\ fresh' = TRUE
    /\ last_call' = "pick"
    /\ ForgetCall
    /\ UNCHANGED <<rulesVars, runVars, gridVars,
                   caVars, pick_only_rock, nodes_fitted,
                   changes>>

(* Values of an optional argument: None or a number in lo..hi. *)
Optional(lo, hi) == {NotSet} \cup (lo..hi)

(* Outcomes of a calc_coords_of_surface_points call: it raises when        *)
(* exposed_surface does not exist yet; an empty exposed_surface is an      *)
(* array of floats, which the array library either accepts as an index or  *)
(* rejects.                                                                *)
CalcOutcomes(es) ==
    IF es = <<NotSet>> THEN {"calc raised"}
    ELSE IF es = << >> THEN {"calc", "calc raised"}
    ELSE {"calc"}

(* sm.calc_coords_of_surface_points(min_x, max_x, first_nodes), with a     *)
(* min_x left of the last column and a max_x right of the first.           *)
CalcCoords ==
    /\ \E mn \in Optional(0, num_cols - 2),
          mx \in Optional(1, num_cols - 1),
          fn \in Optional(0, MaxFirst),
          outcome \in CalcOutcomes(exposed_surface) :
          /\ last_call' = outcome
          /\ IF outcome = "calc"
             THEN LET r == calc_coords_of_surface_points(exposed_surface,
                                                         mn, mx, fn)
                  IN /\ min_x' = mn
                     /\ max_x' = mx
                     /\ first_nodes' = fn
                     /\ surface_x' = r.surface_x
                     /\ surface_z' = r.surface_z
                     /\ nodes_fitted' = r.nodes_fitted
             ELSE /\ ForgetCall
                  /\ UNCHANGED nodes_fitted
    /\ UNCHANGED <<rulesVars, runVars, gridVars,
                   caVars, pick_only_rock,
                   exposed_surface, fresh, changes>>

(* The engine changes the state of one node and the states of its links. *)
ChangeNode ==
    /\ changes < MaxChanges
    /\ \E n \in GridNodes, c \in SurfaceStates :
          /\ c # ca_node_state[n]
          /\ ca_node_state' = [ca_node_state EXCEPT ![n] = c]
          /\ ca_link_state' =
                assign_link_states_from_node_types(ca_node_state')
    /\ changes' = changes + 1
    /\ fresh' = FALSE
    /\ last_call' = "change"
    /\ ForgetCall
    /\ UNCHANGED <<rulesVars, runVars, gridVars,
                   pick_only_rock, exposed_surface,
                   nodes_fitted>>

NextSurface ==
    \/ PickRockSurface
    \/ CalcCoords
    \/ ChangeNode

SpecSurface == InitSurface /\ [][NextSurface]_vars

----------------------------------------------------------------------------
(* The cosmogenic irradiator (cosmogenic_irradiator.py) *)

(* Rows and columns of the grid the irradiator works on. *)
cosmo_shape == <<2, 3>>

(* Node states of that grid: air and resting grain. *)
CosmoStates == {0, 7}

(* Values of the duration and cell_width arguments of add_cosmos. *)
Durations == {1, 2}

Widths == {1, 2}

(* Largest number of operations (calls and grid changes) in a run. *)
MaxOps == 3

NodeIds(nr, nc) == 0..(nr * nc - 1)

(* A tracer value is a sum of terms dose_rate * duration, where dose_rate  *)
(* is prod_rate * exp(-cumulative_depth / decay_depth).  It is kept as the *)
(* total duration received at each cumulative depth, the depth counted in  *)
(* half units: the value is the sum over d of                              *)
(* prod_rate * exp(-(d / 2) / decay_depth) * v[d].                         *)
Depths(nr) == {(2 * k + 1) * w : k \in 0..(nr - 1), w \in Widths}

(* grid.add_zeros: the value 0.0 *)
add_zeros(nr) == [d \in Depths(nr) |-> 0]

(* v + dose_rate * duration at cumulative depth depth2 / 2 *)
add_dose(v, depth2, duration) == [v EXCEPT ![depth2] = @ + duration]

(* Variant of walk_column: the walk stops at the first air node. *)
RECURSIVE walk_column_stopping(_, _, _, _, _, _, _)
walk_column_stopping(cos, ns, pid, c, r, depth2, call) ==
    IF r < 0 THEN cos
    ELSE LET node_id == row_col_to_id(r, c, call.nc)
         IN IF ns[node_id] # 0
            THEN walk_column_stopping(
                     [cos EXCEPT ![pid[node_id]] =
                                     add_dose(@, depth2, call.duration)],
                     ns, pid, c, r - 1, depth2 + 2 * call.cell_width, call)
            ELSE [cos EXCEPT ![pid[node_id]] = add_zeros(call.nr)]

RECURSIVE walk_columns_stopping(_, _, _, _, _)
walk_columns_stopping(cos, ns, pid, c, call) ==
    IF c > call.nc - 2 THEN cos
    ELSE walk_columns_stopping(
             walk_column_stopping(cos, ns, pid, c, call.nr - 1, call.cell_width, call),
             ns, pid, c + 1, call)

(* Variant of walk_column: an air node adds a cell to the depth. *)
RECURSIVE walk_column_counting_air(_, _, _, _, _, _, _)
walk_column_counting_air(cos, ns, pid, c, r, depth2, call) ==
    IF r < 0 THEN cos
    ELSE LET node_id == row_col_to_id(r, c, call.nc)
         IN IF ns[node_id] # 0
            THEN walk_column_counting_air(
                     [cos EXCEPT ![pid[node_id]] =
                                     add_dose(@, depth2, call.duration)],
                     ns, pid, c, r - 1, depth2 + 2 * call.cell_width, call)
            ELSE walk_column_counting_air(
                     [cos EXCEPT ![pid[node_id]] = add_zeros(call.nr)],
                     ns, pid, c, r - 1, depth2 + 2 * call.cell_width, call)

RECURSIVE walk_columns_counting_air(_, _, _, _, _)
walk_columns_counting_air(cos, ns, pid, c, call) ==
    IF c > call.nc - 2 THEN cos
    ELSE walk_columns_counting_air(
             walk_column_counting_air(cos, ns, pid, c, call.nr - 1, call.cell_width, call),
             ns, pid, c + 1, call)

(* Variant of walk_column: the tracer slot is that of the node, not that   *)
(* of the particle at the node.                                            *)
RECURSIVE walk_column_by_node(_, _, _, _, _, _, _)
walk_column_by_node(cos, ns, pid, c, r, depth2, call) ==
    IF r < 0 THEN cos
    ELSE LET node_id == row_col_to_id(r, c, call.nc)
         IN IF ns[node_id] # 0
            THEN walk_column_by_node(
                     [cos EXCEPT ![node_id] =
                                     add_dose(@, depth2, call.duration)],
                     ns, pid, c, r - 1, depth2 + 2 * call.cell_width, call)
            ELSE walk_column_by_node(
                     [cos EXCEPT ![node_id] = add_zeros(call.nr)],
                     ns, pid, c, r - 1, depth2, call)

RECURSIVE walk_columns_by_node(_, _, _, _, _)
walk_columns_by_node(cos, ns, pid, c, call) ==
    IF c > call.nc - 2 THEN cos
    ELSE walk_columns_by_node(
             walk_column_by_node(cos, ns, pid, c, call.nr - 1, call.cell_width, call),
             ns, pid, c + 1, call)

(* The inner loop of add_cosmos, lines 77-86: rows r, r - 1, ..., 0 of     *)
(* column c, with cumulative depth depth2 / 2 at row r.                    *)
RECURSIVE walk_column(_, _, _, _, _, _, _)
walk_column(cos, ns, pid, c, r, depth2, call) ==
    IF r < 0 THEN cos
    ELSE LET node_id == row_col_to_id(r, c, call.nc)
         IN IF ns[node_id] # 0
            THEN walk_column(
                     [cos EXCEPT ![pid[node_id]] =
                                     add_dose(@, depth2, call.duration)],
                     ns, pid, c, r - 1, depth2 + 2 * call.cell_width, call)
            ELSE walk_column(
                     [cos EXCEPT ![pid[node_id]] = add_zeros(call.nr)],
                     ns, pid, c, r - 1, depth2, call)

(* The outer loop of add_cosmos, lines 75-76: columns c, c + 1, ..., up to *)
(* the last interior column; cumulative_depth starts at cell_width / 2.    *)
RECURSIVE walk_columns(_, _, _, _, _)
walk_columns(cos, ns, pid, c, call) ==
    IF c > call.nc - 2 THEN cos
    ELSE walk_columns(
             walk_column(cos, ns, pid, c, call.nr - 1, call.cell_width, call),
             ns, pid, c + 1, call)

Call(duration, w, nr, nc) ==
    [duration |-> duration, cell_width |-> w, nr |-> nr, nc |-> nc]

(* Variant of add_cosmos: a column is left at its first air node. *)
add_cosmos_stopping_at_air(cos, ns, pid, call) ==
    walk_columns_stopping(cos, ns, pid, 1, call)

(* Variant of add_cosmos: air counts as depth. *)
add_cosmos_counting_air(cos, ns, pid, call) ==
    walk_columns_counting_air(cos, ns, pid, 1, call)

(* Variant of add_cosmos: the tracer is kept per node. *)
add_cosmos_by_node(cos, ns, pid, call) ==
    walk_columns_by_node(cos, ns, pid, 1, call)

(* Variant of add_cosmos: the first column is walked too. *)
add_cosmos_from_first_column(cos, ns, pid, call) ==
    walk_columns(cos, ns, pid, 0, call)

(* add_cosmos(duration, cell_width): the array cosmo after the call. *)
add_cosmos(cos, ns, pid, call) ==
    walk_columns(cos, ns, pid, 1, call)

(* Cell (row, column) of each node, and the pairs of neighbouring nodes of *)
(* the hexagonal grid: in one column one row apart, or in adjacent columns *)
(* half a row apart.                                                       *)
CosmoCells == (0..(cosmo_shape[1] - 1)) \X (0..(cosmo_shape[2] - 1))

CosmoNodes == NodeIds(cosmo_shape[1], cosmo_shape[2])

CosmoCellOf ==
    [n \in CosmoNodes |->
        CHOOSE rc \in CosmoCells :
            row_col_to_id(rc[1], rc[2], cosmo_shape[2]) = n]

CosmoHeight(n) == 2 * CosmoCellOf[n][1] + (CosmoCellOf[n][2] % 2)

CosmoNeighbours ==
    {ab \in CosmoNodes \X CosmoNodes :
        \/ /\ CosmoCellOf[ab[1]][2] = CosmoCellOf[ab[2]][2]
           /\ CosmoHeight(ab[2]) = CosmoHeight(ab[1]) + 2
        \/ /\ CosmoCellOf[ab[2]][2] = CosmoCellOf[ab[1]][2] + 1
           /\ CosmoHeight(ab[2]) - CosmoHeight(ab[1]) \in {0 - 1, 1}}

(* A grid and an irradiator constructed on it: every particle sits at the  *)
(* node of its number and every tracer is zero.                            *)
InitCosmo ==
    /\ RulesIdle
    /\ RunIdle
    /\ SurfaceIdle
    /\ ProfileIdle
    /\ number_of_node_rows = cosmo_shape[1]
    /\ number_of_node_columns = cosmo_shape[2]
    /\ gh_node_state \in [CosmoNodes -> CosmoStates]
    /\ propid = [n \in CosmoNodes |-> n]
    /\ cosmo = [p \in CosmoNodes |-> add_zeros(cosmo_shape[1])]
    /\ calls_log = << >>
    /\ cosmo_op = "none"
    /\ ops = 0

(* ci.add_cosmos(duration, cell_width) *)
AddCosmos ==
    /\ ops < MaxOps
    /\ \E duration \in Durations, w \in Widths :
          LET call == Call(duration, w, number_of_node_rows,
                           number_of_node_columns)
          IN /\ cosmo' = add_cosmos(cosmo, gh_node_state, propid, call)
             /\ calls_log' = Append(calls_log,
                    [call |-> call, node_state |-> gh_node_state,
                     propid |-> propid])
    /\ cosmo_op' = "add_cosmos"
    /\ ops' = ops + 1
    /\ UNCHANGED <<rulesVars, runVars, surfVars, ghVars, propid,
                   profileVars>>

(* The engine moves a grain into a neighbouring air node: the two nodes    *)
(* exchange their states and their particles.                              *)
MoveParticle ==
    /\ ops < MaxOps
    /\ \E ab \in CosmoNeighbours :
          /\ gh_node_state[ab[1]] # gh_node_state[ab[2]]
          /\ gh_node_state' =
                [gh_node_state EXCEPT ![ab[1]] = gh_node_state[ab[2]],
                                      ![ab[2]] = gh_node_state[ab[1]]]
          /\ propid' = [propid EXCEPT ![ab[1]] = propid[ab[2]],
                                      ![ab[2]] = propid[ab[1]]]
    /\ cosmo_op' = "move"
    /\ ops' = ops + 1
    /\ UNCHANGED <<rulesVars, runVars, surfVars, number_of_node_rows,
                   number_of_node_columns, cosmo, calls_log, profileVars>>

(* The engine turns a node into air without moving its particle. *)
VacateNode ==
    /\ ops < MaxOps
    /\ \E n \in CosmoNodes :
          /\ gh_node_state[n] # 0
          /\ gh_node_state' = [gh_node_state EXCEPT ![n] = 0]
    /\ cosmo_op' = "vacate"
    /\ ops' = ops + 1
    /\ UNCHANGED <<rulesVars, runVars, surfVars, number_of_node_rows,
                   number_of_node_columns, propid, cosmo, calls_log,
                   profileVars>>

NextCosmo ==
    \/ AddCosmos
    \/ MoveParticle
    \/ VacateNode

SpecCosmo == InitCosmo /\ [][NextCosmo]_vars

----------------------------------------------------------------------------
(* Columns of the grid and the topographic profile,                        *)
(* src/grainhill/grain_facet_model.py lines 251-291.                       *)

(* Largest number of rows and of columns, and of changes made to the grid. *)
MaxSide == 3

MaxFill == 2

(* Node states the profile distinguishes: air, resting grain, rock. *)
ProfileStates == {0, 7, 8}

(* np.arange(start, stop, step) for a positive step. *)
RECURSIVE arange(_, _, _)
arange(start, stop, step) ==
    IF start >= stop THEN << >>
    ELSE <<start>> \o arange(start + step, stop, step)

(* Variant of nodes_in_column: odd columns are not set apart. *)
nodes_in_column_unstaggered(col, nrows, ncols) ==
    LET base_node == col
        num_nodes == nrows * ncols
    IN arange(base_node, num_nodes, ncols)

(* nodes_in_column(col, num_rows, num_cols), lines 267-269. *)
nodes_in_column(col, nrows, ncols) ==
    LET base_node == (col \div 2) + (col % 2) * ((ncols + 1) \div 2)
        num_nodes == nrows * ncols
    IN arange(base_node, num_nodes, ncols)

(* The value of r at which the loop of line 284 ends, entered at r. *)
RECURSIVE scan_column(_, _, _, _)
scan_column(data, c, nr, r) ==
    IF r < nr /\ data[c * nr + r] # 0
    THEN scan_column(data, c, nr, r + 1)
    ELSE r

(* get_profile_and_soil_thickness, lines 274-291: for each column the pair *)
(* of twice elev[c] and of soil[c].                                        *)
get_profile_and_soil_thickness(data, nr, nc) ==
    [c1 \in 1..nc |->
        LET c == c1 - 1
            top == scan_column(data, c, nr, 0)
        IN <<(c % 2) + 2 * top,
             Cardinality({r \in 0..(top - 1) : data[c * nr + r] = 7})>>]

InitProfile ==
    /\ RulesIdle
    /\ RunIdle
    /\ SurfaceIdle
    /\ CosmoIdle
    /\ number_of_node_rows \in 1..MaxSide
    /\ number_of_node_columns \in 1..MaxSide
    /\ gh_node_state =
          [n \in NodeIds(number_of_node_rows, number_of_node_columns) |-> 0]
    /\ ProfileIdle

(* ca.node_state[n] = state *)
SetNode ==
    /\ fills < MaxFill
    /\ \E n \in DOMAIN gh_node_state, state \in ProfileStates :
          /\ state # gh_node_state[n]
          /\ gh_node_state' = [gh_node_state EXCEPT ![n] = state]
    /\ fills' = fills + 1
    /\ profile' = << >>
    /\ UNCHANGED <<rulesVars, runVars, surfVars, number_of_node_rows,
                   number_of_node_columns, cosmoVars, id_table,
                   column_nodes>>

(* row_col_to_id(row, col, num_cols) for every row and column of the grid. *)
RowColToId ==
    /\ id_table' =
          [r1 \in 1..number_of_node_rows |->
              [c1 \in 1..number_of_node_columns |->
                  row_col_to_id(r1 - 1, c1 - 1, number_of_node_columns)]]
    /\ UNCHANGED <<rulesVars, runVars, surfVars, ghVars, cosmoVars,
                   column_nodes, profile, fills>>

(* nodes_in_column(col, num_rows, num_cols) for every column of the grid. *)
NodesInColumn ==
    /\ column_nodes' =
          [c1 \in 1..number_of_node_columns |->
              nodes_in_column(c1 - 1, number_of_node_rows,
                              number_of_node_columns)]
    /\ UNCHANGED <<rulesVars, runVars, surfVars, ghVars, cosmoVars,
                   id_table, profile, fills>>

(* elev, soil = get_profile_and_soil_thickness() *)
GetProfile ==
    /\ profile' = get_profile_and_soil_thickness(gh_node_state,
                      number_of_node_rows, number_of_node_columns)
    /\ UNCHANGED <<rulesVars, runVars, surfVars, ghVars, cosmoVars,
                   id_table, column_nodes, fills>>

NextProfile ==
    \/ SetNode
    \/ RowColToId
    \/ NodesInColumn
    \/ GetProfile

SpecProfile == InitProfile /\ [][NextProfile]_vars

----------------------------------------------------------------------------
(* Vocabulary of the properties *)

BaseList == lattice_grain_transition_list(settling_rate, 0, settling_rate)

(* Positions in xn_list of the rules appended after the base list. *)
AppendedIdx == (Len(BaseList) + 1)..Len(xn_list)

Named(name) == {i \in AppendedIdx : xn_list[i].name = name}

Codes == DOMAIN node_state_dictionary(variant)

Mobile == 1..6

(* Link state with code a at position pos (1 tail, 2 head) and b at the other. *)
Pair(pos, o, a, b) == IF pos = 1 THEN <<a, b, o>> ELSE <<b, a, o>>

Count(ns, c) == Cardinality({n \in Nodes : ns[n] = c})

NonAir(ns) == Cardinality({n \in Nodes : ns[n] # 0})

AllOtherRatesZero ==
    /\ disturbance_rate = 0
    /\ weathering_rate = 0
    /\ dissolution_rate = 0
    /\ collapse_rate = 0

----------------------------------------------------------------------------
(* C1: in both variants every endpoint code of every appended rule is a    *)
(* code of the variant's node_state_dictionary(), and every node of the    *)
(* grid holds an enumerated code after any sequence of transitions.        *)
C1_EnumeratedCodes ==
    /\ \A i \in AppendedIdx : \A k \in 1..2 :
          /\ xn_list[i].from_state[k] \in Codes
          /\ xn_list[i].to_state[k] \in Codes
    /\ \A n \in Nodes : node_state[n] \in Codes

C1_Witness ==
    /\ pc = "ready"
    /\ variant = "BlockHill"
    /\ last_xn.name = "weathering"
    /\ \E n \in Nodes : node_state[n] = BLOCK_ID

(* C2: no appended rule has rate 0 (a zero rate suppresses its group). *)
C2_NoZeroRateRule ==
    \A i \in AppendedIdx : xn_list[i].rate # 0

C4_OrientationPreserved ==
    /\ [](\A i \in AppendedIdx :
              xn_list[i].from_state[3] = xn_list[i].to_state[3])
    /\ [][\A l \in Links : \A i \in AppendedIdx :
              Fires(l, i) => link_state(node_state', l) = xn_list[i].to_state]_vars

C4_Witness ==
    /\ pc = "ready"
    /\ last_xn.name = "block settling"
    /\ last_xn.link[3] = 2
    /\ link_state(node_state, last_xn.link) = <<0, BLOCK_ID, 2>>

(* C5: two distinct appended rules with the same from-state have different *)
(* to-states.                                                              *)
C5_DistinctDestinations ==
    \A i, j \in AppendedIdx :
        (i # j /\ xn_list[i].from_state = xn_list[j].from_state)
            => xn_list[i].to_state # xn_list[j].to_state

(* Exactly 6 rules named name, at the given rate, one per orientation and  *)
(* position pos of the code a: each takes Pair(pos, o, a, 0) to a state    *)
(* accepted by To(pos, o, to_state).                                       *)
OnePerOrientationAndPosition(name, rate, a, To(_, _, _)) ==
    /\ Cardinality(Named(name)) = 6
    /\ \A i \in Named(name) : xn_list[i].rate = rate
    /\ \A o \in 0..2 : \A pos \in 1..2 :
          \E i \in Named(name) :
              /\ xn_list[i].from_state = Pair(pos, o, a, 0)
              /\ To(pos, o, xn_list[i].to_state)

WeatheredTo(c) ==
    LET To(pos, o, t) == t = Pair(pos, o, c, 0)
    IN OnePerOrientationAndPosition("weathering", weathering_rate, 8, To)

C7_Disturbance ==
    (pc = "ready" /\ disturbance_rate > 0) =>
        LET To(pos, o, t) ==
              \E m \in Mobile : /\ OrientationClass(m) = o
                                /\ t = Pair(pos, o, 0, m)
        IN /\ OnePerOrientationAndPosition("disturbance", disturbance_rate,
                                           7, To)
           /\ \A i \in Named("disturbance") :
                 \E pos \in 1..2 : \E o \in 0..2 :
                     xn_list[i].from_state = Pair(pos, o, 7, 0)

C7_Witness ==
    /\ pc = "ready"
    /\ disturbance_rate > 0
    /\ last_xn.name = "disturbance"
    /\ last_xn.link[3] = 1
    /\ link_state(node_state, last_xn.link) = <<5, 0, 1>>

(* C8: in GrainFacetSimulator dissolution_rate > 0 gives exactly 6         *)
(* dissolution rules at that rate, one per orientation and rock position,  *)
(* rock/air to air/air; BlockHill has no dissolution rule; a dissolution   *)
(* transition removes exactly one non-air node and creates no resting      *)
(* grain.                                                                  *)
C8_Dissolution ==
    /\ []((pc = "ready" /\ variant = "GrainFacetSimulator"
                        /\ dissolution_rate > 0) =>
            LET To(pos, o, t) == t = <<0, 0, o>>
            IN OnePerOrientationAndPosition("dissolution", dissolution_rate,
                                            8, To))
    /\ [](variant = "BlockHill" => Named("dissolution") = {})
    /\ [][\A l \in Links : \A i \in Named("dissolution") :
              Fires(l, i) =>
                  /\ NonAir(node_state') = NonAir(node_state) - 1
                  /\ Count(node_state', 7) = Count(node_state, 7)]_vars

C8_Witness ==
    /\ pc = "ready"
    /\ variant = "GrainFacetSimulator"
    /\ dissolution_rate > 0
    /\ last_xn.name = "dissolution"
    /\ link_state(node_state, last_xn.link) = <<0, 0, 2>>

(* C9: BlockHill has exactly 6 hit block rules, one per orientation and    *)
(* impact direction, each turning the mobile grain of a (mobile grain,     *)
(* block) pair into a resting grain (7), block and orientation unchanged.  *)
C9_HitBlock ==
    (pc = "ready" /\ variant = "BlockHill") =>
        /\ Cardinality(Named("hit block")) = 6
        /\ \A o \in 0..2 : \A pos \in 1..2 :
              \E i \in Named("hit block") : \E m \in Mobile :
                  /\ xn_list[i].from_state = Pair(pos, o, BLOCK_ID, m)
                  /\ xn_list[i].to_state = Pair(pos, o, BLOCK_ID, 7)

C9_Witness ==
    /\ pc = "ready"
    /\ variant = "BlockHill"
    /\ last_xn.name = "hit block"
    /\ last_xn.link[3] = 2
    /\ link_state(node_state, last_xn.link) = <<BLOCK_ID, 7, 2>>

(* C10: there is one block settling rule per orientation, each applying to *)
(* a (block, air) pair and exchanging the two codes; a block settling      *)
(* transition changes neither the number of block nodes nor the number of  *)
(* air nodes.                                                              *)
C10_BlockSettling ==
    /\ []((pc = "ready" /\ variant = "BlockHill") =>
            /\ Cardinality(Named("block settling")) = 3
            /\ \A o \in 0..2 : \E i \in Named("block settling") :
                  xn_list[i].from_state[3] = o
            /\ \A i \in Named("block settling") :
                  \E pos \in 1..2 : \E o \in 0..2 :
                      /\ xn_list[i].from_state = Pair(pos, o, BLOCK_ID, 0)
                      /\ xn_list[i].to_state = Pair(pos, o, 0, BLOCK_ID))
    /\ [][\A l \in Links : \A i \in Named("block settling") :
              Fires(l, i) =>
                  /\ Count(node_state', BLOCK_ID) = Count(node_state, BLOCK_ID)
                  /\ Count(node_state', 0) = Count(node_state, 0)]_vars

C10_Witness ==
    /\ pc = "ready"
    /\ variant = "BlockHill"
    /\ last_xn.name = "block settling"
    /\ last_xn.link[3] = 0
    /\ link_state(node_state, last_xn.link) = <<BLOCK_ID, 0, 0>>

(* C11: in BlockHill no appended rule turns a block (9) into a moving      *)
(* grain (1..6) and no disturbance rule has a block in its from-state;     *)
(* when an appended rule fires, a node that held a block still holds it,   *)
(* holds a resting grain (7), or has exchanged places with the air at the  *)
(* other end of the link.                                                  *)
C11_BlocksNeverActivated ==
    /\ [](\A i \in AppendedIdx : \A k \in 1..2 :
              xn_list[i].from_state[k] = BLOCK_ID
                  => xn_list[i].to_state[k] \notin Mobile)
    /\ [](\A i \in Named("disturbance") : \A k \in 1..2 :
              xn_list[i].from_state[k] # BLOCK_ID)
    /\ [][\A l \in Links : \A i \in AppendedIdx :
              Fires(l, i) =>
                  \A n \in Nodes :
                      node_state[n] = BLOCK_ID =>
                          \/ node_state'[n] \in {BLOCK_ID, 7}
                          \/ /\ node_state'[n] = 0
                             /\ \E m \in {l[1], l[2]} \ {n} :
                                   /\ n \in {l[1], l[2]}
                                   /\ node_state[m] = 0
                                   /\ node_state'[m] = BLOCK_ID]_vars

C11_Witness ==
    /\ pc = "ready"
    /\ variant = "BlockHill"
    /\ last_xn.name = "block weathering"
    /\ last_xn.link[3] = 2
    /\ link_state(node_state, last_xn.link) = <<0, 7, 2>>

----------------------------------------------------------------------------
(* Properties of the run loops *)

LastTarget(tg) == tg[Len(tg)].to

(* Interval of the image schedule of the running program. *)
PlotEvery == IF prog = "driver" THEN file_plot_interval ELSE plot_interval

(* C12: run() on a driver constructed without an input file and never      *)
(* initialized raises at once: no image is written, plot_number and the    *)
(* model time are untouched and no engine advance is requested.            *)
C12_RunBeforeInitializeRaises ==
    /\ [](rpc = "raised" =>
             /\ ~initialized
             /\ images = << >>
             /\ targets = << >>
             /\ plot_number = NotSet)
    /\ [][(prog = "driver" /\ ~initialized /\ rpc' # rpc) =>
             /\ rpc' = "raised"
             /\ UNCHANGED <<images, plot_number, targets, current_time>>]_vars

C12_Witness ==
    /\ prog = "driver"
    /\ rpc = "raised"
    /\ ~initialized

(* C13: with positive intervals and run_duration > 0 both run loops        *)
(* terminate; the simulated time never exceeds run_duration and equals it  *)
(* at termination.                                                         *)
C13_RunTerminatesAtRunDuration ==
    /\ [](current_time <= run_duration)
    /\ [](rpc = "done" => current_time = run_duration)
    /\ (rpc = "while" ~> rpc = "done")

C13_Witness ==
    /\ prog = "driver"
    /\ rpc = "done"
    /\ uplift_duration > 0
    /\ uplift_duration < run_duration
    /\ current_time = run_duration

(* C14: every target handed to the engine is at least the previous target, *)
(* at most run_duration and at most every pending epoch of the loop        *)
(* (next_output, next_plot, next_uplift in GrainFacetSimulator.run;        *)
(* next_file_plot, uplift_change_time in GrainHillDriver.run).             *)
C14_TargetsMonotoneAndBounded ==
    [][targets' # targets =>
          LET t == LastTarget(targets')
          IN /\ t <= run_duration
             /\ targets # << >> => LastTarget(targets) <= t
             /\ prog = "facet" =>
                   /\ t <= next_output
                   /\ t <= next_plot
                   /\ t <= next_uplift
             /\ prog = "driver" =>
                   /\ t <= next_file_plot
                   /\ t <= uplift_change_time]_vars

C14_Witness ==
    /\ prog = "driver"
    /\ Len(targets) >= 3
    /\ LastTarget(targets) = run_duration
    /\ uplift_duration < run_duration

(* C15: in GrainFacetSimulator.run the j-th do_offset call happens at time *)
(* j * uplift_interval, after the engine advance to that time, and at the  *)
(* end of the run there has been one call for each epoch <= run_duration.  *)
C15_OffsetOncePerEpoch ==
    prog = "facet" =>
        /\ \A j \in DOMAIN offsets :
              /\ offsets[j].time = j * uplift_interval
              /\ offsets[j].advanced_to = j * uplift_interval
        /\ rpc = "done" =>
              Len(offsets) = run_duration \div uplift_interval

C15_Witness ==
    /\ prog = "facet"
    /\ rpc = "done"
    /\ Len(offsets) >= 2
    /\ uplift_interval > 1

(* C16: in GrainHillDriver.run with uplift_duration < run_duration the     *)
(* engine is paused at uplift_duration; no advance beyond uplift_duration  *)
(* is requested before the driver has set model.next_uplift; the driver    *)
(* sets it only once that time is reached and only to run_duration; the    *)
(* run ends at run_duration.                                               *)
C16_UpliftDisabledAfterDuration ==
    (prog = "driver" /\ initialized /\ uplift_duration < run_duration) =>
        /\ \A j \in DOMAIN uplift_sets :
              /\ uplift_sets[j].value = run_duration
              /\ uplift_sets[j].time >= uplift_duration
        /\ (\E j \in DOMAIN targets : targets[j].to > uplift_duration)
              => uplift_sets # << >>
        /\ rpc = "done" =>
              /\ current_time = run_duration
              /\ \E j \in DOMAIN targets : targets[j].to = uplift_duration

C16_Witness ==
    /\ prog = "driver"
    /\ rpc = "done"
    /\ uplift_duration > 0
    /\ uplift_duration < run_duration
    /\ uplift_sets # << >>

(* C17: the j-th image carries number j - 1 (a distinct 4-digit name) and  *)
(* is written at time (j - 1) * interval, the first before any advance;    *)
(* plot_number counts the images; a finished run has written one image for *)
(* time 0 and one for each epoch <= run_duration.                          *)
C17_OneImagePerEpoch ==
    /\ \A j \in DOMAIN images :
          /\ images[j].number = j - 1
          /\ images[j].time = (j - 1) * PlotEvery
          /\ Len(images[j].fname) = 4
    /\ images # << >> => images[1].advances = 0
    /\ \A i, j \in DOMAIN images :
          i # j => images[i].fname # images[j].fname
    /\ (prog = "driver" /\ initialized) => plot_number = Len(images)
    /\ (prog = "facet" /\ plot_file) => plot_number = Len(images)
    /\ (prog = "facet" /\ ~plot_file) => images = << >>
    /\ (rpc = "done" /\ (prog = "driver" \/ plot_file)) =>
          Len(images) = 1 + (run_duration \div PlotEvery)

C17_Witness ==
    /\ prog = "driver"
    /\ rpc = "done"
    /\ plot_file
    /\ Len(images) >= 3

----------------------------------------------------------------------------
(* Properties of the slope measurer *)

(* Nodes whose state is in rockset and that share a link with an air node. *)
ExposedNodes(ns, rockset) ==
    {n \in GridNodes :
        /\ ns[n] \in rockset
        /\ \E l \in GridLinks :
              \/ l[1] = n /\ ns[l[2]] = air_id
              \/ l[2] = n /\ ns[l[1]] = air_id}

StrictlyIncreasing(seq) ==
    \A i, j \in DOMAIN seq : i < j => seq[i] < seq[j]

AirLinks(ns, n) ==
    {l \in GridLinks : \/ l[1] = n /\ ns[l[2]] = air_id
                       \/ l[2] = n /\ ns[l[1]] = air_id}

C19_PickIdempotentReadOnly ==
    [][last_call' = "pick" =>
          /\ UNCHANGED caVars
          /\ fresh => exposed_surface' = exposed_surface]_vars

C19_Witness ==
    /\ last_call = "pick"
    /\ fresh
    /\ changes = 0
    /\ nodes_fitted # <<NotSet>>
    /\ Len(exposed_surface) >= 2

InRange(n) ==
    /\ (min_x # NotSet => node_x(n) > min_x)
    /\ (max_x # NotSet => node_x(n) < max_x)

(* C20: after calc_coords_of_surface_points returns, nodes_fitted is the   *)
(* first first_nodes elements (all when None), in node-id order, of the    *)
(* exposed-surface nodes with min_x < x < max_x (each bound when given),   *)
(* and the returned x and z are the coordinates of those nodes in order.   *)
C20_RangeThenCount ==
    last_call = "calc" =>
        LET keep == SelectSeq(exposed_surface, InRange)
            want == IF first_nodes = NotSet THEN keep
                    ELSE SubSeq(keep, 1, min(first_nodes, Len(keep)))
        IN /\ nodes_fitted = want
           /\ surface_x = [i \in DOMAIN nodes_fitted |->
                              node_x(nodes_fitted[i])]
           /\ surface_z = [i \in DOMAIN nodes_fitted |->
                              node_y(nodes_fitted[i])]

C20_Witness ==
    /\ last_call = "calc"
    /\ min_x # NotSet
    /\ first_nodes # NotSet
    /\ first_nodes > 0
    /\ Len(nodes_fitted) = first_nodes
    /\ Len(SelectSeq(exposed_surface, InRange)) > first_nodes
    /\ nodes_fitted # SubSeq(exposed_surface, 1, first_nodes)

----------------------------------------------------------------------------
(* Further properties of the rule lists *)

(* C27: every "rock collapse" rule of BlockHill takes rock over air on a   *)
(* vertical link, (0,8,0), at rate collapse_rate, to air below a moving    *)
(* grain: the rock becomes a mobile-grain code.                            *)
C27_RockCollapseToMovingGrain ==
    \A i \in Named("rock collapse") :
        /\ xn_list[i].from_state = <<0, 8, 0>>
        /\ xn_list[i].rate = collapse_rate
        /\ xn_list[i].to_state[1] = 0
        /\ xn_list[i].to_state[2] \in Mobile
        /\ xn_list[i].to_state[3] = 0

(* Non-air endpoints of a link state. *)
NonAirEnds(st) == Cardinality({pos \in 1..2 : st[pos] # 0})

AddedNames ==
    {"disturbance", "weathering", "dissolution", "rock collapse",
     "block settling", "block weathering", "hit block"}

(* C30: every appended rule other than dissolution has as many non-air     *)
(* endpoints in its to-state as in its from-state and no appended rule has *)
(* more; a transition by an appended rule other than dissolution leaves    *)
(* the number of non-air nodes of the grid unchanged, and with             *)
(* dissolution_rate = 0 so does every transition by an appended rule.      *)
C30_AddedRulesConserveMass ==
    /\ [](\A i \in AppendedIdx :
             /\ xn_list[i].name \in AddedNames
             /\ NonAirEnds(xn_list[i].to_state)
                    <= NonAirEnds(xn_list[i].from_state)
             /\ xn_list[i].name # "dissolution" =>
                    NonAirEnds(xn_list[i].to_state)
                        = NonAirEnds(xn_list[i].from_state))
    /\ [][(\E l \in Links : \E i \in AppendedIdx :
              /\ Fires(l, i)
              /\ (xn_list[i].name # "dissolution" \/ dissolution_rate = 0))
           => NonAir(node_state') = NonAir(node_state)]_vars

C30_Witness ==
    /\ pc = "ready"
    /\ variant = "BlockHill"
    /\ dissolution_rate = 0
    /\ last_xn.name = "hit block"
    /\ link_state(node_state, last_xn.link) = <<7, BLOCK_ID, 0>>
    /\ NonAir(node_state) = 2

----------------------------------------------------------------------------
(* Further properties of the run loops *)

(* C28: every engine advance requested by a run loop has a target strictly *)
(* greater than the simulated time at the call (for uplift_duration <=     *)
(* run_duration in the driver).                                            *)
C28_EveryAdvanceProgresses ==
    (prog = "driver" => uplift_duration <= run_duration) =>
        \A j \in DOMAIN targets : targets[j].from < targets[j].to

(* C29: a driver whose plot_to_file flag is false writes no image during   *)
(* run() and its plot_number stays 0.                                      *)
C29_NoImageWithoutFlag ==
    (prog = "driver" /\ initialized /\ ~plot_file) =>
        /\ images = << >>
        /\ plot_number = 0


----------------------------------------------------------------------------
(* Properties of the cosmogenic irradiator.                                *)

(* A step that is one call of add_cosmos, and the call's arguments. *)
AddCosmosStep == cosmo_op' = "add_cosmos" /\ ops' = ops + 1

LastCall == calls_log[Len(calls_log)]

InteriorColumns == 1..(cosmo_shape[2] - 2)

InteriorNodes == {n \in CosmoNodes : CosmoCellOf[n][2] \in InteriorColumns}

(* m lies above n in the column of n. *)
Above(m, n) ==
    /\ CosmoCellOf[m][2] = CosmoCellOf[n][2]
    /\ CosmoCellOf[m][1] > CosmoCellOf[n][1]

(* The number of non-air nodes above n in its column. *)
NonAirAbove(ns, n) ==
    Cardinality({m \in CosmoNodes : Above(m, n) /\ ns[m] # 0})

(* Twice the depth (k + 1/2) * w. *)
Depth2(k, w) == (2 * k + 1) * w

(* C21 as stated: a call of add_cosmos leaves unchanged the tracer slot of *)
(* every node of an interior column that lies below an air node of that    *)
(* column.                                                                 *)
C21_NothingChangesBelowAir ==
    [][AddCosmosStep =>
          \A n \in InteriorNodes :
              (\E m \in CosmoNodes : Above(m, n) /\ gh_node_state[m] = 0)
                  => cosmo'[propid[n]] = cosmo[propid[n]]]_vars

(* C21: a call of add_cosmos walks every node of every interior column:    *)
(* the slot of an air node is reset to zero, and the slot of a non-air     *)
(* node receives the call's duration at some depth, whether or not air     *)
(* nodes lie above it in the column.                                       *)
C21_WalkContinuesBelowAir ==
    [][AddCosmosStep =>
          \A n \in InteriorNodes :
              IF gh_node_state[n] = 0
              THEN cosmo'[propid[n]] = add_zeros(number_of_node_rows)
              ELSE \E d \in Depths(number_of_node_rows) :
                      cosmo'[propid[n]] =
                          add_dose(cosmo[propid[n]], d,
                                   LastCall'.call.duration)]_vars

(* A second call has been made on a grid in which an interior column has a *)
(* non-air node below an air node: the slot of the air node, which held a  *)
(* dose from the first call, is zero, and the particle at the non-air node *)
(* holds a dose.                                                           *)
C21_Witness ==
    /\ cosmo_op = "add_cosmos"
    /\ Len(calls_log) = 2
    /\ \E n \in InteriorNodes, m \in CosmoNodes :
          /\ Above(m, n)
          /\ gh_node_state[m] = 0
          /\ gh_node_state[n] # 0
          /\ calls_log[1].propid[m] = propid[m]
          /\ calls_log[1].node_state[m] # 0
          /\ cosmo[propid[m]] = add_zeros(number_of_node_rows)
          /\ cosmo[propid[n]] # add_zeros(number_of_node_rows)

(* C22: in a call add_cosmos(T, w), a non-air node of an interior column   *)
(* receives T at depth (k + 1/2) * w, k being the number of non-air nodes  *)
(* above it in its column; in a column without air k is the node's rank    *)
(* from the top.                                                           *)
C22_DepthCountsNonAirNodesAbove ==
    [][AddCosmosStep =>
          \A n \in InteriorNodes :
              gh_node_state[n] # 0 =>
                  /\ cosmo'[propid[n]] =
                        add_dose(cosmo[propid[n]],
                                 Depth2(NonAirAbove(gh_node_state, n),
                                        LastCall'.call.cell_width),
                                 LastCall'.call.duration)
                  /\ (\A m \in CosmoNodes : Above(m, n) => gh_node_state[m] # 0)
                        => NonAirAbove(gh_node_state, n) =
                              number_of_node_rows - 1 - CosmoCellOf[n][1]]_vars

(* Two calls have been made; after the last one an interior column holds   *)
(* no air, its bottom node has a dose at depth 3/2 w and none at 1/2 w,    *)
(* and its top node has doses at 1/2 w only.                               *)
C22_Witness ==
    /\ cosmo_op = "add_cosmos"
    /\ Len(calls_log) = 2
    /\ \E n \in InteriorNodes, m \in CosmoNodes :
          LET w == LastCall.call.cell_width
          IN /\ Above(m, n)
             /\ gh_node_state[m] # 0
             /\ gh_node_state[n] # 0
             /\ cosmo[propid[n]][Depth2(1, w)] > 0
             /\ cosmo[propid[n]][Depth2(0, w)] = 0
             /\ cosmo[propid[m]][Depth2(0, w)] > 0

(* The node at which particle p sat when call j was made. *)
NodeOf(p, j) == CHOOSE n \in CosmoNodes : calls_log[j].propid[n] = p

(* The tracer due to particle p after the first j calls: at each call the  *)
(* dose computed at the node it occupied then, zero if that node was air,  *)
(* and nothing new if that node lay in the first or the last column.       *)
RECURSIVE Due(_, _)
Due(p, j) ==
    IF j = 0 THEN add_zeros(number_of_node_rows)
    ELSE LET e == calls_log[j]
             n == NodeOf(p, j)
         IN IF n \notin InteriorNodes THEN Due(p, j - 1)
            ELSE IF e.node_state[n] = 0
                 THEN add_zeros(number_of_node_rows)
                 ELSE add_dose(Due(p, j - 1),
                               Depth2(NonAirAbove(e.node_state, n),
                                      e.call.cell_width),
                               e.call.duration)

C24_EdgeColumnsAndGridUntouched ==
    [][AddCosmosStep =>
          /\ \A n \in CosmoNodes \ InteriorNodes :
                cosmo'[propid[n]] = cosmo[propid[n]]
          /\ gh_node_state' = gh_node_state
          /\ propid' = propid]_vars

(* A particle was dosed in an interior column and moved to an edge column, *)
(* where a later call found it and left its dose as it was.                *)
C24_Witness ==
    /\ cosmo_op = "add_cosmos"
    /\ Len(calls_log) = 2
    /\ \E n \in CosmoNodes \ InteriorNodes :
          /\ gh_node_state[n] # 0
          /\ cosmo[propid[n]] # add_zeros(number_of_node_rows)
          /\ cosmo[propid[n]] = Due(propid[n], 1)


----------------------------------------------------------------------------
(* Properties of the columns and of the profile.                           *)

Rows == 0..(number_of_node_rows - 1)

Columns == 0..(number_of_node_columns - 1)

(* C25: row_col_to_id maps the rows and columns of the grid one-to-one     *)
(* onto the node ids 0 .. num_rows * num_cols - 1, and nodes_in_column of  *)
(* a column has num_rows entries, the r-th being row_col_to_id of row r    *)
(* and that column.                                                        *)
C25_RowColToIdMatchesColumns ==
    /\ id_table # << >> =>
          /\ {id_table[r + 1][c + 1] : r \in Rows, c \in Columns} =
                NodeIds(number_of_node_rows, number_of_node_columns)
          /\ \A r, q \in Rows, c, d \in Columns :
                id_table[r + 1][c + 1] = id_table[q + 1][d + 1]
                    => r = q /\ c = d
    /\ column_nodes # << >> =>
          \A c \in Columns :
              /\ Len(column_nodes[c + 1]) = number_of_node_rows
              /\ \A r \in Rows :
                    column_nodes[c + 1][r + 1] =
                        row_col_to_id(r, c, number_of_node_columns)

(* Both have been computed on a grid of several rows and at least three    *)
(* columns, where the odd columns are numbered after the even ones.        *)
C25_Witness ==
    /\ id_table # << >>
    /\ column_nodes # << >>
    /\ number_of_node_rows >= 2
    /\ number_of_node_columns >= 3
    /\ column_nodes[2][1] > column_nodes[3][1]
    /\ column_nodes[2][2] = id_table[2][2]

(* The nodes of column c that count for the profile: from the bottom of    *)
(* the column up to its first air node.                                    *)
Ground(c) ==
    LET nodes == nodes_in_column(c, number_of_node_rows,
                                 number_of_node_columns)
    IN {nodes[i] : i \in {j \in 1..Len(nodes) :
                            \A k \in 1..j : gh_node_state[nodes[k]] # 0}}

(* C26: for every column c, elev[c] is (c mod 2)/2 plus the number of      *)
(* contiguous non-air nodes from the bottom of the column, and soil[c] the *)
(* number of resting grains among them, the column's nodes being those of  *)
(* nodes_in_column.                                                        *)
C26_ProfileOfGridColumns ==
    profile # << >> =>
        \A c \in Columns :
            profile[c + 1] =
                <<(c % 2) + 2 * Cardinality(Ground(c)),
                  Cardinality({n \in Ground(c) : gh_node_state[n] = 7})>>


----------------------------------------------------------------------------
(* The life of a rock particle in BlockHill.                               *)

(* The endpoint of link l other than node n. *)
OtherEnd(l, n) == IF n = l[1] THEN l[2] ELSE l[1]

----------------------------------------------------------------------------
(* The order of side effects within one pause of GrainFacetSimulator.run.  *)

(* A schedule either keeps its epoch or, in its own handler and when the   *)
(* epoch has been reached, moves it by exactly one interval.               *)
Rescheduled(next, nextAfter, interval, handler) ==
    \/ nextAfter = next
    \/ /\ rpc = handler
       /\ current_time >= next
       /\ nextAfter = next + interval

(* An offset has been made at the present simulated time. *)
OffsetDoneNow == \E j \in DOMAIN offsets : offsets[j].time = current_time

(* C32: in GrainFacetSimulator.run the handlers of a pause run in the      *)
(* order output, plot, fault slip; each schedule whose epoch has been      *)
(* reached moves by exactly one interval, in its own handler; a plot is    *)
(* made before the fault slip of the same pause, and a fault slip only     *)
(* after the output and plot schedules of the pause have been handled; and *)
(* at the loop test, after every iteration, next_output, next_plot and     *)
(* next_uplift are all later than current_time.                            *)
C32_OutputPlotThenFaultSlip ==
    /\ []((prog = "facet" /\ rpc \in {"while", "done"}) =>
             /\ next_output > current_time
             /\ next_plot > current_time
             /\ next_uplift > current_time)
    /\ [][(prog = "facet" /\ rpc # "idle") =>
             /\ rpc = "output" => rpc' \in {"output", "plot"}
             /\ rpc = "plot" => rpc' \in {"plot", "uplift"}
             /\ rpc = "uplift" => rpc' \in {"uplift", "while"}
             /\ Rescheduled(next_output, next_output', output_interval,
                            "output")
             /\ Rescheduled(next_plot, next_plot', plot_interval, "plot")
             /\ Rescheduled(next_uplift, next_uplift', uplift_interval,
                            "uplift")
             /\ (next_plot' # next_plot \/ images' # images) =>
                   /\ ~OffsetDoneNow
                   /\ next_output > current_time
                   /\ plot_file => images' # images
             /\ offsets' # offsets =>
                   /\ next_output > current_time
                   /\ next_plot > current_time
                   /\ offsets' = Append(offsets, offsets'[Len(offsets')])
                   /\ offsets'[Len(offsets')].time = current_time]_vars

(* A plot epoch and a fault-slip epoch coincided in the second or a later  *)
(* pause: the image of that time was written and the offset was made, and  *)
(* the iteration is over.                                                  *)
C32_Witness ==
    /\ prog = "facet"
    /\ rpc = "while"
    /\ plot_file
    /\ Len(targets) >= 2
    /\ OffsetDoneNow
    /\ images # << >>
    /\ images[Len(images)].time = current_time
    /\ next_plot = current_time + plot_interval
    /\ next_uplift = current_time + uplift_interval

====
